---- MODULE Spec2Model ----
(***************************************************************************)
(* Model of the validator pipeline of amazon-cloudwatch-agent-test:        *)
(*   - the Dimension Factory      (test/metric/dimension/provider.go)      *)
(*   - the Mem / Swap runners     (metric_value_benchmark)                 *)
(*   - the Log Validator          (internal/awsservice/cloudwatchlogs.go)  *)
(*   - the lazily created CloudWatch Logs client singleton                 *)
(* Each component has its own specification over the shared variables.     *)
(***************************************************************************)
EXTENDS Integers, Sequences, FiniteSets, TLC

VARIABLES
    \* ---- Dimension Factory (provider.go)
    env,                      \* Environment Metadata: the providers applicable under it
    providers,                \* Factory.providers
    instructions,             \* argument of GetDimensions
    gdIdx,                    \* position of the range loop of GetDimensions
    resultDimensions,         \* local of GetDimensions
    unfulfilledInstructions,  \* local of GetDimensions
    gdPc,                     \* "loop" | "returned" | "panic"
    consulted,                \* providers executeInstruction asked for the latest instruction
    \* ---- Mem / Swap runner (metric_value_benchmark)
    runner,                   \* "Mem" | "Swap"
    pending,                  \* measured metrics the range loop of Validate has not visited
    testResults,              \* local of Validate
    vPc,                      \* "range" | "fetch" | "panic" | "done"
    testResult,               \* local of validateMemMetric / validateSwapMetric
    gd,                       \* outcome of the GetDimensions call of the current metric
    values,                   \* values returned by fetcher.Fetch
    fetchErr,                 \* err returned by fetcher.Fetch
    fetchCalls,               \* number of fetcher.Fetch invocations
    groupResult,              \* value returned by Validate
    \* ---- Log Validator (cloudwatchlogs.go)
    since,                    \* argument of ValidateLogs (*time.Time)
    validator,                \* argument of ValidateLogs
    lgPc,                     \* "entry" | "call" | "done" | "panic"
    gl,                       \* locals of getLogsSince
    vlResult,                 \* (bool, error) returned by ValidateLogs
    validatorCalls,           \* number of invocations of validator
    validatorArg,             \* the list validator was invoked on
    \* what the backend saw and answered
    calls,                    \* number of GetLogEvents calls
    lastRequestToken,         \* NextToken of the latest request
    lastResponse,             \* the latest answer
    delivered,                \* events of the successful answers, in order
    rnfAnswers,               \* number of resource-not-found answers
    sleeps,                   \* number of time.Sleep(time.Minute)
    rnfFree,                  \* getLogsSince fed with the same answers but the resource-not-found ones
    \* ---- CloudWatch Logs client singleton (cloudwatchlogs.go)
    cwl,                      \* package variable cwl
    ctx,                      \* package variable ctx
    created,                  \* number of clients cloudwatchlogs.NewFromConfig made
    cPc,                      \* per caller: position in getCloudWatchLogsClient
    cRet,                     \* per caller: the returned (client, error)
    \* ---- Cleanup (cloudwatchlogs.go)
    clOp,                     \* the cleanup function called
    clGroup,                  \* argument logGroupName
    clStream,                 \* argument logStreamName
    clPc,                     \* "stream" | "group" | "done"
    logGroups,                \* backend: the log groups that exist
    logStreams,               \* backend: the <<group, stream>> pairs that exist
    apiCalls,                 \* the delete calls the backend answered, in order
    errorLog                  \* the error lines written with log.Printf, in order

factoryVars ==
    <<env, providers, instructions, gdIdx, resultDimensions, unfulfilledInstructions, gdPc,
      consulted>>

gdVars == <<instructions, gdIdx, resultDimensions, unfulfilledInstructions, gdPc, consulted>>

runnerVars ==
    <<runner, pending, testResults, vPc, testResult, gd, values, fetchErr, fetchCalls,
      groupResult>>

logsVars ==
    <<since, validator, lgPc, gl, vlResult, validatorCalls, validatorArg, calls,
      lastRequestToken, lastResponse, delivered, rnfAnswers, sleeps, rnfFree>>

clientVars == <<cwl, ctx, created, cPc, cRet>>

cleanupVars == <<clOp, clGroup, clStream, clPc, logGroups, logStreams, apiCalls, errorLog>>

vars == <<factoryVars, runnerVars, logsVars, clientVars, cleanupVars>>

(***************************************************************************)
(* Bounds                                                                  *)
(***************************************************************************)
MaxInstructions == 2
\* measured metrics of a runner that the model iterates over
MaxMetrics == 3
\* length of a fetched sample sequence
MaxSamples == 2
\* GetLogEvents calls the backend answers in one ValidateLogs call
MaxCalls == 7
\* log events the backend holds for the stream
MaxLogs == 3
\* log events in one GetLogEvents page
MaxPageEvents == 2
\* goroutines calling getCloudWatchLogsClient concurrently
NumCallers == 3

(***************************************************************************)
(* Values                                                                  *)
(***************************************************************************)
\* a nil pointer (*string, *Client, error)
Nil == "nil"

InstructionKeys == {"InstanceId", "host", "ClusterName"}
KnownValues == {"v"}

\* type ExpectedDimensionValue struct { Value *string }
ExpectedDimensionValue == [Value : KnownValues \cup {Nil}]

\* func (d *ExpectedDimensionValue) IsKnown() bool { return d.Value == nil }
IsKnown(d) == d.Value = Nil

\* func UnknownDimensionValue() ExpectedDimensionValue
UnknownDimensionValue == [Value |-> Nil]

\* type Instruction struct { Key string; Value ExpectedDimensionValue }
Instruction == [Key : InstructionKeys, Value : ExpectedDimensionValue]

\* types.Dimension{}: both pointers nil
EmptyDimension == [Name |-> Nil, Value |-> Nil]

Dimension(name, value) == [Name |-> name, Value |-> value]

\* the instruction carries a literal expected value (Data Model: "known")
HasLiteralValue(instruction) == instruction.Value.Value # Nil

(***************************************************************************)
(* Providers.  Their GetDimension / IsApplicable bodies are not part of    *)
(* the sources at hand; they follow the provider contract of section 4.1.  *)
(***************************************************************************)
\* allDimensionProviders, in the order GetDimensionFactory lists them
allDimensionProviders ==
    <<"ContainerInsights", "Host", "LocalInstanceId", "ECSInstanceId", "Custom">>

ProviderNames == {allDimensionProviders[i] : i \in 1..Len(allDimensionProviders)}

\* provider.IsApplicable(): an observation of the Environment Metadata
IsApplicable(provider, e) == provider \in e

\* provider.GetDimension(instruction): a Resolved Dimension or "not mine"
ProviderGetDimension(provider, instruction) ==
    CASE provider = "Custom" ->
            IF HasLiteralValue(instruction)
            THEN Dimension(instruction.Key, instruction.Value.Value)
            ELSE EmptyDimension
      [] provider = "ContainerInsights" ->
            IF instruction.Key = "ClusterName" /\ ~HasLiteralValue(instruction)
            THEN Dimension("ClusterName", "cluster") ELSE EmptyDimension
      [] provider = "Host" ->
            IF instruction.Key = "host" /\ ~HasLiteralValue(instruction)
            THEN Dimension("host", "hostname") ELSE EmptyDimension
      [] provider = "LocalInstanceId" ->
            IF instruction.Key = "InstanceId" /\ ~HasLiteralValue(instruction)
            THEN Dimension("InstanceId", "i-local") ELSE EmptyDimension
      [] provider = "ECSInstanceId" ->
            IF instruction.Key = "InstanceId" /\ ~HasLiteralValue(instruction)
            THEN Dimension("InstanceId", "i-ecs") ELSE EmptyDimension

(***************************************************************************)
(* Dimension Factory                                                       *)
(***************************************************************************)
\* GetDimensionFactory without the IsApplicable test
ApplicableFrom_KeepAll(i, e) == SubSeq(allDimensionProviders, i, Len(allDimensionProviders))

\* GetDimensionFactory: keep the applicable providers, in list order
RECURSIVE ApplicableFrom(_, _)
ApplicableFrom(i, e) ==
    IF i > Len(allDimensionProviders) THEN <<>>
    ELSE IF IsApplicable(allDimensionProviders[i], e)
         THEN <<allDimensionProviders[i]>> \o ApplicableFrom(i + 1, e)
         ELSE ApplicableFrom(i + 1, e)

GetDimensionFactory(e) == ApplicableFrom(1, e)

\* Factory.executeInstruction: the first non-empty provider answer, else empty;
\* asked is the list of providers whose GetDimension the loop has called
RECURSIVE executeInstructionFrom(_, _, _, _)
executeInstructionFrom(ps, i, instruction, asked) ==
    IF i > Len(ps) THEN [asked |-> asked, dim |-> EmptyDimension]
    ELSE LET dim == ProviderGetDimension(ps[i], instruction)
         IN  IF dim # EmptyDimension THEN [asked |-> Append(asked, ps[i]), dim |-> dim]
             ELSE executeInstructionFrom(ps, i + 1, instruction, Append(asked, ps[i]))

executeInstruction(ps, instruction) ==
    executeInstructionFrom(ps, 1, instruction, <<>>).dim

\* the providers one executeInstruction call asks, in the order of the calls
ProvidersAsked(ps, instruction) ==
    executeInstructionFrom(ps, 1, instruction, <<>>).asked

\* log.Printf("...: %s, %s", *dim.Name, *dim.Value): the arguments are evaluated
\* before the call, and dereferencing a nil pointer panics
LogDimensionPanics(dim) == dim.Name = Nil \/ dim.Value = Nil

\* One iteration of the range loop of GetDimensions, on the locals
\* st = [resultDimensions, unfulfilledInstructions, pc].
GetDimensionsIteration(ps, st, instruction) ==
    LET dim == executeInstruction(ps, instruction)
    IN  IF dim # EmptyDimension
        THEN [resultDimensions |-> Append(st.resultDimensions, dim),
              unfulfilledInstructions |-> st.unfulfilledInstructions,
              pc |-> IF LogDimensionPanics(dim) THEN "panic" ELSE "loop"]
        ELSE [resultDimensions |-> st.resultDimensions,
              unfulfilledInstructions |-> Append(st.unfulfilledInstructions, instruction),
              pc |-> IF LogDimensionPanics(dim) THEN "panic" ELSE "loop"]

GetDimensionsEntry ==
    [resultDimensions |-> <<>>, unfulfilledInstructions |-> <<>>, pc |-> "loop"]

\* The whole call: the loop run to its end ("returned") or to a panic.
RECURSIVE GetDimensionsFrom(_, _, _, _)
GetDimensionsFrom(ps, is, i, st) ==
    IF st.pc = "panic" THEN st
    ELSE IF i > Len(is) THEN [st EXCEPT !.pc = "returned"]
    ELSE GetDimensionsFrom(ps, is, i + 1, GetDimensionsIteration(ps, st, is[i]))

GetDimensions(ps, is) == GetDimensionsFrom(ps, is, 1, GetDimensionsEntry)

\* instruction lists of length <= MaxInstructions
RECURSIVE SeqsUpTo(_, _)
SeqsUpTo(S, n) ==
    IF n = 0 THEN {<<>>}
    ELSE LET shorter == SeqsUpTo(S, n - 1)
         IN  shorter \cup {Append(s, x) : s \in {t \in shorter : Len(t) = n - 1}, x \in S}

(***************************************************************************)
(* Log Validator                                                           *)
(***************************************************************************)
allowedRetries == 5

ResourceNotFoundException == "ResourceNotFoundException"
OtherError == "OtherError"
ConfigError == "ConfigError"

\* forward tokens and messages of the backend
Tokens == {"f/1", "f/2"}
Messages == {"a", "b"}

\* the validator functions the caller may pass
Validators == {"nonEmpty", "startsWithA", "never"}

\* validator(logs)
ApplyValidator(v, logs) ==
    CASE v = "nonEmpty" -> Len(logs) > 0
      [] v = "startsWithA" -> Len(logs) > 0 /\ logs[1] = "a"
      [] v = "never" -> FALSE

\* locals of getLogsSince when the loop is entered (lines 90-120)
getLogsSinceEntry ==
    [pc |-> "call", foundLogs |-> <<>>, paramsNextToken |-> Nil, nextToken |-> Nil,
     attempts |-> 0, err |-> Nil]

\* lines 123-125: the token the request carries
RequestToken(st) == IF st.nextToken # Nil THEN st.nextToken ELSE st.paramsNextToken

\* retries are not limited to resource-not-found
ShouldRetry_AnyError(errKind, attempts) == attempts <= allowedRetries

\* line 132: errors.As(err, &rnf) && attempts <= allowedRetries
ShouldRetry(errKind, attempts) ==
    errKind = ResourceNotFoundException /\ attempts <= allowedRetries

\* the new page is put in front of the messages found so far
AppendEvents_Prepend(found, events) == events \o found

\* lines 142-144: foundLogs = append(foundLogs, *e.Message) for each event
AppendEvents(found, events) == found \o events

\* the end-of-stream test without the nil tests
EndOfStream_NoNilTest(nextToken, forwardToken) == forwardToken = nextToken

\* line 146: the end-of-stream test
EndOfStream(nextToken, forwardToken) ==
    nextToken # Nil /\ forwardToken # Nil /\ forwardToken = nextToken

\* One iteration of the for loop of getLogsSince (lines 122-153) on the locals
\* st, with the backend answering resp = [kind, events, token].
getLogsSinceIteration(st, resp) ==
    LET sent == [st EXCEPT !.paramsNextToken = RequestToken(st),
                           !.attempts = st.attempts + 1]
    IN  IF resp.kind # "ok"
        THEN IF ShouldRetry(resp.kind, sent.attempts)
             THEN sent
             ELSE [sent EXCEPT !.err = resp.kind, !.pc = "returned"]
        ELSE LET found == AppendEvents(st.foundLogs, resp.events)
             IN  IF EndOfStream(st.nextToken, resp.token)
                 THEN [sent EXCEPT !.foundLogs = found, !.pc = "returned"]
                 ELSE [sent EXCEPT !.foundLogs = found, !.nextToken = resp.token]

\* ValidateLogs after getLogsSince returned (lines 80-84): the returned pair,
\* and whether validator was invoked
ValidateLogsResult(st, v) ==
    IF st.err # Nil
    THEN [err |-> st.err, ok |-> FALSE, invoked |-> 0, arg |-> <<>>]
    ELSE [err |-> Nil, ok |-> ApplyValidator(v, st.foundLogs),
          invoked |-> 1, arg |-> st.foundLogs]

NoResponse == [events |-> <<>>, kind |-> Nil, token |-> Nil]

\* no ValidateLogs call is under way
LogsIdle ==
    /\ since = Nil /\ validator = "never" /\ lgPc = "done"
    /\ gl = getLogsSinceEntry /\ vlResult = [err |-> Nil, ok |-> FALSE]
    /\ validatorCalls = 0 /\ validatorArg = <<>> /\ calls = 0
    /\ lastRequestToken = Nil /\ lastResponse = NoResponse /\ delivered = <<>>
    /\ rnfAnswers = 0 /\ sleeps = 0 /\ rnfFree = getLogsSinceEntry

(***************************************************************************)
(* CloudWatch Logs client singleton                                        *)
(***************************************************************************)
Callers == 1..NumCallers

NoClient == 0

\* var ( ctx context.Context; cwl *cloudwatchlogs.Client ), nobody calling
ClientInit ==
    /\ cwl = NoClient /\ ctx = Nil /\ created = 0
    /\ cRet = [c \in Callers |-> [err |-> Nil, client |-> NoClient]]

ClientIdle == ClientInit /\ cPc = [c \in Callers |-> "done"]

(***************************************************************************)
(* Cleanup: DeleteLogStream, DeleteLogGroup, DeleteLogGroupAndStream       *)
(***************************************************************************)
CleanupOps == {"DeleteLogStream", "DeleteLogGroup", "DeleteLogGroupAndStream"}

LogGroupNames == {"g1", "g2"}
LogStreamNames == {"s1", "s2"}

\* the condition of lines 49 and 69 without the errors.As test
ShouldLogDeleteError_AnyError(answer) == answer # "ok"

\* lines 49 and 69: err != nil && !errors.As(err, &rnf)
ShouldLogDeleteError(answer) ==
    answer # "ok" /\ answer # ResourceNotFoundException

\* what the backend may answer to DeleteLogStream: resource-not-found when the
\* group or the stream is missing, success when it is there, or another error
DeleteLogStreamAnswers(streams, group, stream) ==
    (IF <<group, stream>> \in streams THEN {"ok"} ELSE {ResourceNotFoundException})
        \cup {OtherError}

\* what the backend may answer to DeleteLogGroup
DeleteLogGroupAnswers(groups, group) ==
    (IF group \in groups THEN {"ok"} ELSE {ResourceNotFoundException})
        \cup {OtherError}

\* DeleteLogGroupAndStream goes on with DeleteLogGroup (lines 29-30); the
\* other two functions return
AfterDelete(op, pc) ==
    IF op = "DeleteLogGroupAndStream" /\ pc = "stream" THEN "group" ELSE "done"

\* no cleanup function is running
CleanupIdle ==
    /\ clOp = Nil /\ clGroup = Nil /\ clStream = Nil /\ clPc = "done"
    /\ logGroups = {} /\ logStreams = {} /\ apiCalls = <<>> /\ errorLog = <<>>

\* the runner is not running
RunnerIdle ==
    /\ runner = Nil /\ pending = {} /\ testResults = <<>> /\ vPc = "done"
    /\ testResult = [Name |-> Nil, Status |-> Nil] /\ gd = GetDimensionsEntry
    /\ values = <<>> /\ fetchErr = Nil /\ fetchCalls = 0
    /\ groupResult = [Name |-> Nil, TestResults |-> <<>>]

InitFactory ==
    /\ RunnerIdle /\ LogsIdle /\ ClientIdle /\ CleanupIdle
    /\ env \in SUBSET ProviderNames
    /\ providers = GetDimensionFactory(env)
    /\ instructions \in SeqsUpTo(Instruction, MaxInstructions)
    /\ gdIdx = 1
    /\ resultDimensions = GetDimensionsEntry.resultDimensions
    /\ unfulfilledInstructions = GetDimensionsEntry.unfulfilledInstructions
    /\ gdPc = GetDimensionsEntry.pc
    /\ consulted = <<>>

GdLocals ==
    [resultDimensions |-> resultDimensions,
     unfulfilledInstructions |-> unfulfilledInstructions, pc |-> gdPc]

GdIterate ==
    LET st == GetDimensionsIteration(providers, GdLocals, instructions[gdIdx])
    IN  /\ resultDimensions' = st.resultDimensions
        /\ unfulfilledInstructions' = st.unfulfilledInstructions
        /\ gdPc' = st.pc
        /\ gdIdx' = gdIdx + 1
        /\ consulted' = ProvidersAsked(providers, instructions[gdIdx])
        /\ UNCHANGED <<env, providers, instructions, runnerVars, logsVars, clientVars, cleanupVars>>

\* loop body, "if" branch (lines 61-63)
GetDimensionsResolve ==
    /\ gdPc = "loop" /\ gdIdx <= Len(instructions)
    /\ executeInstruction(providers, instructions[gdIdx]) # EmptyDimension
    /\ GdIterate

\* loop body, "else" branch (lines 64-67)
GetDimensionsUnfulfilled ==
    /\ gdPc = "loop" /\ gdIdx <= Len(instructions)
    /\ executeInstruction(providers, instructions[gdIdx]) = EmptyDimension
    /\ GdIterate

\* return resultDimensions, unfulfilledInstructions (line 70)
GetDimensionsReturn ==
    /\ gdPc = "loop" /\ gdIdx > Len(instructions)
    /\ gdPc' = "returned"
    /\ UNCHANGED <<env, providers, instructions, gdIdx, resultDimensions,
                   unfulfilledInstructions, consulted, runnerVars, logsVars, clientVars, cleanupVars>>

NextFactory ==
    \/ GetDimensionsResolve
    \/ GetDimensionsUnfulfilled
    \/ GetDimensionsReturn

SpecFactory == InitFactory /\ [][NextFactory]_vars

(***************************************************************************)
(* Mem / Swap runners                                                      *)
(***************************************************************************)
FAILED == "Failed"
SUCCESSFUL == "Successful"

Runners == {"Mem", "Swap"}

GetTestName(r) == r

\* keys of the map literal of GetMeasuredMetrics (every Bounds is nil)
MemMetricNames ==
    <<"mem_active", "mem_available", "mem_available_percent", "mem_buffered",
      "mem_cached", "mem_free", "mem_inactive", "mem_total", "mem_used",
      "mem_used_percent">>

SwapMetricNames == <<"swap_free", "swap_used", "swap_used_percent">>

MetricNames(r) == IF r = "Mem" THEN MemMetricNames ELSE SwapMetricNames

\* the measured metrics, cut to the first MaxMetrics entries
GetMeasuredMetrics(r) ==
    {MetricNames(r)[i] : i \in 1..(IF Len(MetricNames(r)) < MaxMetrics
                                   THEN Len(MetricNames(r)) ELSE MaxMetrics)}

\* the instruction list both runners build: [InstanceId = unknown]
RunnerInstructions == <<[Value |-> UnknownDimensionValue, Key |-> "InstanceId"]>>

\* sample values and sequences fetcher.Fetch may return
SampleValues == {-1, 0, 1}
SampleSequences == SeqsUpTo(SampleValues, MaxSamples)

\* isAllValuesGreaterThanOrEqualToZero (section 4.6, steps 4 and 5)
isAllValuesGreaterThanOrEqualToZero(vs) ==
    /\ Len(vs) > 0
    /\ \A i \in 1..Len(vs) : vs[i] >= 0

\* the status is never raised from its pessimistic default
validateMetricAfterFetch_NeverSuccessful(err, vs) == FAILED

\* the value check is left out
validateMetricAfterFetch_NoValueCheck(err, vs) ==
    IF err # Nil THEN FAILED ELSE SUCCESSFUL

\* the error of Fetch is not looked at
validateMetricAfterFetch_ErrorIgnored(err, vs) ==
    IF ~isAllValuesGreaterThanOrEqualToZero(vs) THEN FAILED ELSE SUCCESSFUL

\* validateMemMetric / validateSwapMetric after Fetch returned: the status of
\* the TestResult that is returned
validateMetricAfterFetch(err, vs) ==
    IF err # Nil THEN FAILED
    ELSE IF ~isAllValuesGreaterThanOrEqualToZero(vs) THEN FAILED
    ELSE SUCCESSFUL

\* the result starts out successful
InitialTestResult_Optimistic(metricName) == [Name |-> metricName, Status |-> SUCCESSFUL]

\* testResult := status.TestResult{Name: metricName, Status: status.FAILED}
InitialTestResult(metricName) == [Name |-> metricName, Status |-> FAILED]

\* the slice is restarted with the new result
AppendTestResult_Overwrite(results, result) == <<result>>

\* testResults = append(testResults, t.validate...Metric(name))
AppendTestResult(results, result) == Append(results, result)

\* the factory is not under test on its own
GetDimensionsIdle ==
    /\ instructions = <<>> /\ gdIdx = 1 /\ gdPc = "returned"
    /\ resultDimensions = <<>> /\ unfulfilledInstructions = <<>>
    /\ consulted = <<>>

InitRunner ==
    /\ GetDimensionsIdle /\ LogsIdle /\ ClientIdle /\ CleanupIdle
    /\ env \in SUBSET ProviderNames
    /\ providers = GetDimensionFactory(env)
    /\ runner \in Runners
    /\ pending = GetMeasuredMetrics(runner)
    /\ testResults = <<>>
    /\ vPc = "range"
    /\ testResult = [Name |-> Nil, Status |-> Nil]
    /\ gd = GetDimensionsEntry
    /\ values = <<>> /\ fetchErr = Nil /\ fetchCalls = 0
    /\ groupResult = [Name |-> Nil, TestResults |-> <<>>]

\* Validate visits the next metric of the map (in any order) and the metric's
\* validation runs up to the call of fetcher.Fetch, or to its early return,
\* or to the panic inside GetDimensions.
ValidateMetricBegin(metricName) ==
    /\ vPc = "range" /\ metricName \in pending
    /\ pending' = pending \ {metricName}
    /\ LET result == InitialTestResult(metricName)
           call == GetDimensions(providers, RunnerInstructions)
       IN  /\ gd' = call
           /\ testResult' = result
           /\ IF call.pc = "panic"
              THEN vPc' = "panic" /\ UNCHANGED testResults
              ELSE IF Len(call.unfulfilledInstructions) > 0
              THEN vPc' = "range" /\ testResults' = AppendTestResult(testResults, result)
              ELSE vPc' = "fetch" /\ UNCHANGED testResults
    /\ values' = <<>> /\ fetchErr' = Nil
    /\ UNCHANGED <<factoryVars, logsVars, clientVars, cleanupVars, runner, fetchCalls, groupResult>>

\* fetcher.Fetch returns (vs, err) and the metric's validation runs to its end
ValidateMetricFetched(vs, err) ==
    /\ vPc = "fetch"
    /\ fetchCalls' = fetchCalls + 1
    /\ values' = vs /\ fetchErr' = err
    /\ testResult' = [testResult EXCEPT !.Status = validateMetricAfterFetch(err, vs)]
    /\ testResults' = AppendTestResult(testResults, testResult')
    /\ vPc' = "range"
    /\ UNCHANGED <<factoryVars, logsVars, clientVars, cleanupVars, runner, pending, gd, groupResult>>

\* the range loop of Validate is over
ValidateReturn ==
    /\ vPc = "range" /\ pending = {}
    /\ groupResult' = [Name |-> GetTestName(runner), TestResults |-> testResults]
    /\ vPc' = "done"
    /\ UNCHANGED <<factoryVars, logsVars, clientVars, cleanupVars, runner, pending, testResults, testResult, gd, values,
                   fetchErr, fetchCalls>>

NextRunner ==
    \/ \E metricName \in GetMeasuredMetrics(runner) : ValidateMetricBegin(metricName)
    \/ \E vs \in SampleSequences : ValidateMetricFetched(vs, Nil)
    \/ \E vs \in SampleSequences : ValidateMetricFetched(vs, "BackendError")
    \/ ValidateReturn

SpecRunner == InitRunner /\ [][NextRunner]_vars

(***************************************************************************)
(* ValidateLogs as a state machine: one step per remote call               *)
(***************************************************************************)
FactoryIdle == env = {} /\ providers = <<>> /\ GetDimensionsIdle

InitLogs ==
    /\ FactoryIdle /\ RunnerIdle /\ ClientIdle /\ CleanupIdle
    /\ since \in {Nil, "t0"}
    /\ validator \in Validators
    /\ lgPc = "entry"
    /\ gl = getLogsSinceEntry /\ vlResult = [err |-> Nil, ok |-> FALSE]
    /\ validatorCalls = 0 /\ validatorArg = <<>> /\ calls = 0
    /\ lastRequestToken = Nil /\ lastResponse = NoResponse /\ delivered = <<>>
    /\ rnfAnswers = 0 /\ sleeps = 0 /\ rnfFree = getLogsSinceEntry

\* getLogsSince returned with locals st: ValidateLogs runs to its return
ValidateLogsFinish(st) ==
    LET r == ValidateLogsResult(st, validator)
    IN  /\ lgPc' = "done"
        /\ vlResult' = [err |-> r.err, ok |-> r.ok]
        /\ validatorCalls' = validatorCalls + r.invoked
        /\ validatorArg' = r.arg

\* line 77: since.UTC() with since == nil
ValidateLogsPanic ==
    /\ lgPc = "entry" /\ since = Nil
    /\ lgPc' = "panic"
    /\ UNCHANGED <<since, validator, gl, vlResult, validatorCalls, validatorArg, calls,
                   lastRequestToken, lastResponse, delivered, rnfAnswers, sleeps, rnfFree>>
    /\ UNCHANGED <<factoryVars, runnerVars, clientVars, cleanupVars>>

\* lines 92-95: getCloudWatchLogsClient fails
ValidateLogsClientError ==
    /\ lgPc = "entry" /\ since # Nil
    /\ gl' = [gl EXCEPT !.err = ConfigError, !.pc = "returned"]
    /\ ValidateLogsFinish(gl')
    /\ UNCHANGED <<since, validator, calls, lastRequestToken, lastResponse, delivered,
                   rnfAnswers, sleeps, rnfFree>>
    /\ UNCHANGED <<factoryVars, runnerVars, clientVars, cleanupVars>>

\* lines 92-120: the client is there, the loop is entered
ValidateLogsClient ==
    /\ lgPc = "entry" /\ since # Nil
    /\ lgPc' = "call"
    /\ UNCHANGED <<since, validator, gl, vlResult, validatorCalls, validatorArg, calls,
                   lastRequestToken, lastResponse, delivered, rnfAnswers, sleeps, rnfFree>>
    /\ UNCHANGED <<factoryVars, runnerVars, clientVars, cleanupVars>>

\* One GetLogEvents call answered with resp, and the code up to the next call
\* (or up to the return of ValidateLogs).
GetLogEvents(resp) ==
    /\ lgPc = "call" /\ calls < MaxCalls
    /\ Len(delivered) + Len(resp.events) <= MaxLogs
    /\ gl' = getLogsSinceIteration(gl, resp)
    /\ calls' = calls + 1
    /\ lastRequestToken' = gl'.paramsNextToken
    /\ lastResponse' = resp
    /\ delivered' = delivered \o resp.events
    /\ rnfAnswers' = rnfAnswers + (IF resp.kind = ResourceNotFoundException THEN 1 ELSE 0)
    /\ sleeps' = sleeps + (IF resp.kind # "ok" /\ gl'.pc = "call" THEN 1 ELSE 0)
    /\ rnfFree' = IF resp.kind = ResourceNotFoundException THEN rnfFree
                  ELSE getLogsSinceIteration(rnfFree, resp)
    /\ IF gl'.pc = "returned"
       THEN ValidateLogsFinish(gl')
       ELSE UNCHANGED <<lgPc, vlResult, validatorCalls, validatorArg>>
    /\ UNCHANGED <<since, validator>>
    /\ UNCHANGED <<factoryVars, runnerVars, clientVars, cleanupVars>>

PageEvents == SeqsUpTo(Messages, MaxPageEvents)

NextLogs ==
    \/ ValidateLogsPanic
    \/ ValidateLogsClientError
    \/ ValidateLogsClient
    \/ \E events \in PageEvents, token \in Tokens \cup {Nil} :
           GetLogEvents([events |-> events, kind |-> "ok", token |-> token])
    \/ GetLogEvents([events |-> <<>>, kind |-> ResourceNotFoundException, token |-> Nil])
    \/ GetLogEvents([events |-> <<>>, kind |-> OtherError, token |-> Nil])

SpecLogs == InitLogs /\ [][NextLogs]_vars

(***************************************************************************)
(* ValidateLogs against a backend that answers every call, for as long as  *)
(* the loop goes on.  The counters are kept finite: attempts is only       *)
(* compared with allowedRetries, so it stops growing above it, and the     *)
(* count of calls stops at MaxCalls.                                       *)
(***************************************************************************)
BoundedAttempts(st) ==
    [st EXCEPT !.attempts = IF @ > allowedRetries + 1 THEN allowedRetries + 1 ELSE @]

\* One GetLogEvents call answered with resp, and the code up to the next call
\* (or up to the return of ValidateLogs).
GetLogEventsAnswered(resp) ==
    /\ lgPc = "call"
    /\ Len(delivered) + Len(resp.events) <= MaxLogs
    /\ gl' = BoundedAttempts(getLogsSinceIteration(gl, resp))
    /\ calls' = IF calls < MaxCalls THEN calls + 1 ELSE calls
    /\ lastRequestToken' = gl'.paramsNextToken
    /\ lastResponse' = resp
    /\ delivered' = delivered \o resp.events
    /\ rnfAnswers' = rnfAnswers + (IF resp.kind = ResourceNotFoundException THEN 1 ELSE 0)
    /\ sleeps' = sleeps + (IF resp.kind # "ok" /\ gl'.pc = "call" THEN 1 ELSE 0)
    /\ rnfFree' = IF resp.kind = ResourceNotFoundException THEN rnfFree
                  ELSE BoundedAttempts(getLogsSinceIteration(rnfFree, resp))
    /\ IF gl'.pc = "returned"
       THEN ValidateLogsFinish(gl')
       ELSE UNCHANGED <<lgPc, vlResult, validatorCalls, validatorArg>>
    /\ UNCHANGED <<since, validator>>
    /\ UNCHANGED <<factoryVars, runnerVars, clientVars, cleanupVars>>

NextLogsAnswered ==
    \/ ValidateLogsPanic
    \/ ValidateLogsClientError
    \/ ValidateLogsClient
    \/ \E events \in PageEvents, token \in Tokens \cup {Nil} :
           GetLogEventsAnswered([events |-> events, kind |-> "ok", token |-> token])
    \/ GetLogEventsAnswered([events |-> <<>>, kind |-> ResourceNotFoundException, token |-> Nil])
    \/ GetLogEventsAnswered([events |-> <<>>, kind |-> OtherError, token |-> Nil])

\* the goroutine goes on running and the backend answers every call
SpecLogsAnswered == InitLogs /\ [][NextLogsAnswered]_vars /\ WF_vars(NextLogsAnswered)

(***************************************************************************)
(* getCloudWatchLogsClient called from concurrent goroutines: one step per *)
(* access to the package variables                                         *)
(***************************************************************************)
InitClient ==
    /\ FactoryIdle /\ RunnerIdle /\ LogsIdle /\ CleanupIdle
    /\ ClientInit
    /\ cPc = [c \in Callers |-> "check"]

ClientFrame == UNCHANGED <<factoryVars, runnerVars, logsVars, cleanupVars>>

\* line 181: if cwl == nil
ClientCheck(c) ==
    /\ cPc[c] = "check"
    /\ cPc' = [cPc EXCEPT ![c] = IF cwl = NoClient THEN "background" ELSE "return"]
    /\ UNCHANGED <<cwl, ctx, created, cRet>>
    /\ ClientFrame

\* line 182: ctx = context.Background()
ClientBackground(c) ==
    /\ cPc[c] = "background"
    /\ ctx' = "Background"
    /\ cPc' = [cPc EXCEPT ![c] = "load"]
    /\ UNCHANGED <<cwl, created, cRet>>
    /\ ClientFrame

\* lines 183-186: config.LoadDefaultConfig fails
ClientLoadError(c) ==
    /\ cPc[c] = "load"
    /\ cRet' = [cRet EXCEPT ![c] = [err |-> ConfigError, client |-> NoClient]]
    /\ cPc' = [cPc EXCEPT ![c] = "done"]
    /\ UNCHANGED <<cwl, ctx, created>>
    /\ ClientFrame

\* lines 183, 188: cwl = cloudwatchlogs.NewFromConfig(c)
ClientNew(c) ==
    /\ cPc[c] = "load"
    /\ created' = created + 1
    /\ cwl' = created + 1
    /\ cPc' = [cPc EXCEPT ![c] = "return"]
    /\ UNCHANGED <<ctx, cRet>>
    /\ ClientFrame

\* line 190: return cwl, &ctx, nil
ClientReturn(c) ==
    /\ cPc[c] = "return"
    /\ cRet' = [cRet EXCEPT ![c] = [err |-> Nil, client |-> cwl]]
    /\ cPc' = [cPc EXCEPT ![c] = "done"]
    /\ UNCHANGED <<cwl, ctx, created>>
    /\ ClientFrame

NextClient ==
    \E c \in Callers :
        \/ ClientCheck(c)
        \/ ClientBackground(c)
        \/ ClientLoadError(c)
        \/ ClientNew(c)
        \/ ClientReturn(c)

SpecClient == InitClient /\ [][NextClient]_vars

(***************************************************************************)
(* The cleanup functions as a state machine: one step per delete call      *)
(***************************************************************************)
InitCleanup ==
    /\ FactoryIdle /\ RunnerIdle /\ LogsIdle /\ ClientIdle
    /\ clOp \in CleanupOps
    /\ clGroup \in LogGroupNames
    /\ clStream \in LogStreamNames
    /\ clPc = IF clOp = "DeleteLogGroup" THEN "group" ELSE "stream"
    /\ logGroups \in SUBSET LogGroupNames
    /\ logStreams \in SUBSET (logGroups \X LogStreamNames)
    /\ apiCalls = <<>> /\ errorLog = <<>>

\* getCloudWatchLogsClient returns the client: the one at hand, or a new one
CleanupClient ==
    /\ cwl' = IF cwl = NoClient THEN created + 1 ELSE cwl
    /\ created' = IF cwl = NoClient THEN created + 1 ELSE created
    /\ ctx' = IF cwl = NoClient THEN "Background" ELSE ctx
    /\ UNCHANGED <<cPc, cRet>>

\* lines 35-39 and 56-60: getCloudWatchLogsClient fails, the error is logged
\* and the function returns
CleanupClientError ==
    /\ clPc \in {"stream", "group"}
    /\ cwl = NoClient
    /\ ctx' = "Background"
    /\ errorLog' = Append(errorLog, [err |-> ConfigError, line |-> "client"])
    /\ clPc' = AfterDelete(clOp, clPc)
    /\ UNCHANGED <<cwl, created, cPc, cRet>>
    /\ UNCHANGED <<clOp, clGroup, clStream, logGroups, logStreams, apiCalls>>
    /\ UNCHANGED <<factoryVars, runnerVars, logsVars>>

\* lines 35-51: DeleteLogStream with the client at hand
CleanupDeleteLogStream(answer) ==
    /\ clPc = "stream"
    /\ answer \in DeleteLogStreamAnswers(logStreams, clGroup, clStream)
    /\ CleanupClient
    /\ apiCalls' = Append(apiCalls, [answer |-> answer, api |-> "DeleteLogStream"])
    /\ logStreams' = IF answer = "ok" THEN logStreams \ {<<clGroup, clStream>>}
                     ELSE logStreams
    /\ errorLog' = IF ShouldLogDeleteError(answer)
                   THEN Append(errorLog, [err |-> answer, line |-> "DeleteLogStream"])
                   ELSE errorLog
    /\ clPc' = AfterDelete(clOp, clPc)
    /\ UNCHANGED <<clOp, clGroup, clStream, logGroups>>
    /\ UNCHANGED <<factoryVars, runnerVars, logsVars>>

\* lines 56-71: DeleteLogGroup with the client at hand
CleanupDeleteLogGroup(answer) ==
    /\ clPc = "group"
    /\ answer \in DeleteLogGroupAnswers(logGroups, clGroup)
    /\ CleanupClient
    /\ apiCalls' = Append(apiCalls, [answer |-> answer, api |-> "DeleteLogGroup"])
    /\ logGroups' = IF answer = "ok" THEN logGroups \ {clGroup} ELSE logGroups
    /\ logStreams' = IF answer = "ok" THEN {gs \in logStreams : gs[1] # clGroup}
                     ELSE logStreams
    /\ errorLog' = IF ShouldLogDeleteError(answer)
                   THEN Append(errorLog, [err |-> answer, line |-> "DeleteLogGroup"])
                   ELSE errorLog
    /\ clPc' = AfterDelete(clOp, clPc)
    /\ UNCHANGED <<clOp, clGroup, clStream>>
    /\ UNCHANGED <<factoryVars, runnerVars, logsVars>>

DeleteAnswers == {"ok", ResourceNotFoundException, OtherError}

NextCleanup ==
    \/ CleanupClientError
    \/ \E answer \in DeleteAnswers : CleanupDeleteLogStream(answer)
    \/ \E answer \in DeleteAnswers : CleanupDeleteLogGroup(answer)

SpecCleanup == InitCleanup /\ [][NextCleanup]_vars

(***************************************************************************)
(* Properties of the Dimension Factory (SpecFactory)                       *)
(***************************************************************************)
Range(f) == {f[i] : i \in 1..Len(f)}

\* the GetDimensions call is over: it returned or it panicked
GetDimensionsEnded == gdPc \in {"returned", "panic"}

\* C1: every GetDimensions call returns normally, and the lengths of resolved
\* and unfulfilled add up to the length of the instruction list, also when some
\* instruction is satisfied by no provider.
C1_ReturnsPartition ==
    GetDimensionsEnded =>
        /\ gdPc = "returned"
        /\ Len(resultDimensions) + Len(unfulfilledInstructions) = Len(instructions)

\* C2: every instruction with a literal expected value that GetDimensions has
\* processed is resolved to exactly (key, literal value), whatever the
\* provider set is, the empty one included.
C2_KnownResolvedLiterally ==
    \A i \in 1..(gdIdx - 1) :
        HasLiteralValue(instructions[i]) =>
            /\ Dimension(instructions[i].Key, instructions[i].Value.Value)
                   \in Range(resultDimensions)
            /\ instructions[i] \notin Range(unfulfilledInstructions)

\* no applicable provider produces a value for the instruction
NoProviderAnswers(instruction) ==
    \A i \in 1..Len(providers) :
        ProviderGetDimension(providers[i], instruction) = EmptyDimension

SomeProviderAnswers(instruction) == ~NoProviderAnswers(instruction)

\* the dimension the first answering applicable provider gives
FirstAnswer(instruction) ==
    LET i == CHOOSE k \in 1..Len(providers) :
                 /\ ProviderGetDimension(providers[k], instruction) # EmptyDimension
                 /\ \A j \in 1..(k - 1) :
                        ProviderGetDimension(providers[j], instruction) = EmptyDimension
    IN  ProviderGetDimension(providers[i], instruction)

\* the satisfied instructions of the list, in input order, as dimensions
ResolvedInOrder(is) ==
    LET satisfied == SelectSeq(is, SomeProviderAnswers)
    IN  [i \in 1..Len(satisfied) |-> FirstAnswer(satisfied[i])]

\* C15: when the call is over, resolved holds the dimensions of the satisfied
\* instructions in input order, and unfulfilled holds exactly the instructions
\* no applicable provider answered, in input order.
C15_OrderPreserved ==
    GetDimensionsEnded =>
        /\ resultDimensions = ResolvedInOrder(instructions)
        /\ unfulfilledInstructions = SelectSeq(instructions, NoProviderAnswers)

\* C17: no GetDimensions call faults: an unfulfilled instruction is recorded
\* without dereferencing the nil name or value of the empty dimension.
C17_NoFaultOnUnfulfilled ==
    (gdIdx > 1 /\ Len(unfulfilledInstructions) > 0) => gdPc # "panic"

\* the priority order of the providers, as the specification lists it
PriorityOrder ==
    <<"ContainerInsights", "Host", "LocalInstanceId", "ECSInstanceId", "Custom">>

InEnvironment(provider) == provider \in env

\* the instruction the range loop of GetDimensions processed last
LatestInstruction == instructions[gdIdx - 1]

\* C16: the Factory holds exactly the applicable providers in priority order;
\* for the unknown-valued instruction processed last, the providers asked are
\* applicable, form a prefix of that order, all but the last one answered
\* empty, the result is the answer of the first provider answering non-empty,
\* and every provider was asked when none answered.
C16_FirstApplicableAnswerWins ==
    /\ providers = SelectSeq(PriorityOrder, InEnvironment)
    /\ (gdIdx > 1 /\ ~HasLiteralValue(LatestInstruction)) =>
        /\ \A i \in 1..Len(consulted) : consulted[i] \in env
        /\ Len(consulted) <= Len(providers)
        /\ consulted = SubSeq(providers, 1, Len(consulted))
        /\ \A i \in 1..(Len(consulted) - 1) :
               ProviderGetDimension(consulted[i], LatestInstruction) = EmptyDimension
        /\ IF SomeProviderAnswers(LatestInstruction)
           THEN /\ Len(resultDimensions) > 0
                /\ resultDimensions[Len(resultDimensions)] =
                       ProviderGetDimension(consulted[Len(consulted)], LatestInstruction)
                /\ resultDimensions[Len(resultDimensions)] # EmptyDimension
           ELSE /\ consulted = providers
                /\ Len(unfulfilledInstructions) > 0
                /\ unfulfilledInstructions[Len(unfulfilledInstructions)] = LatestInstruction

C16_Witness ==
    /\ env = {"Host", "LocalInstanceId", "ECSInstanceId", "Custom"}
    /\ gdIdx = 2 /\ LatestInstruction = [Value |-> UnknownDimensionValue, Key |-> "InstanceId"]
    /\ consulted = <<"Host", "LocalInstanceId">>
    /\ resultDimensions = <<Dimension("InstanceId", "i-local")>>

(***************************************************************************)
(* Properties of the runners (SpecRunner)                                  *)
(***************************************************************************)
\* the validation of metric testResult.Name is over (returned or panicked)
MetricValidationEnded == testResult.Name # Nil /\ vPc # "fetch"

\* the validation of metric testResult.Name returned its TestResult
MetricValidationReturned ==
    /\ testResult.Name # Nil /\ vPc \in {"range", "done"}
    /\ Len(testResults) > 0 /\ testResults[Len(testResults)] = testResult

\* C3: when the InstanceId instruction is unfulfilled, the metric's validation
\* returns a TestResult with status failed and the fetcher is never invoked.
C3_UnfulfilledFailsWithoutFetch ==
    (MetricValidationEnded /\ Len(gd.unfulfilledInstructions) > 0) =>
        /\ MetricValidationReturned
        /\ testResult.Status = FAILED
        /\ fetchCalls = 0

\* the fetch of the current metric returned a non-empty sequence of values >= 0
FetchedNonNegative ==
    /\ gd.pc = "returned" /\ Len(gd.unfulfilledInstructions) = 0
    /\ fetchCalls > 0 /\ fetchErr = Nil
    /\ Len(values) > 0 /\ \A i \in 1..Len(values) : values[i] >= 0

\* C10: dimensions resolved, fetch succeeded, samples non-empty and all >= 0:
\* the metric's verdict is successful.
C10_NonNegativeSuccessful ==
    (MetricValidationEnded /\ FetchedNonNegative) =>
        /\ MetricValidationReturned
        /\ testResult.Status = SUCCESSFUL

C10_Witness ==
    /\ MetricValidationReturned /\ FetchedNonNegative
    /\ values = <<0, 1>>
    /\ testResult.Status = SUCCESSFUL

\* fetcher.Fetch was called for the current metric and has returned
MetricFetched ==
    /\ MetricValidationEnded
    /\ gd.pc = "returned" /\ Len(gd.unfulfilledInstructions) = 0

\* C11: when Fetch returns without error a sequence that is empty or holds a
\* sample < 0, the metric's verdict is failed, never successful.
C11_NegativeOrEmptyFails ==
    (/\ MetricFetched /\ fetchErr = Nil
     /\ (Len(values) = 0 \/ \E i \in 1..Len(values) : values[i] < 0)) =>
        /\ MetricValidationReturned
        /\ testResult.Status = FAILED
        /\ testResult.Status # SUCCESSFUL

C11_Witness ==
    /\ MetricFetched /\ fetchErr = Nil /\ MetricValidationReturned
    /\ values = <<1, -1>>
    /\ testResult.Status = FAILED
    /\ \E i \in 1..Len(testResults) : testResults[i].Status = SUCCESSFUL

\* the names of the results in a list, with their multiplicity
ResultNameCount(results, name) ==
    Cardinality({i \in 1..Len(results) : results[i].Name = name})

FetchReturns == vPc = "fetch" /\ vPc' # "fetch"

\* the verdict the samples and the error of one Fetch call for themselves
VerdictOfFetch(err, vs) ==
    IF err = Nil /\ Len(vs) > 0 /\ (\A i \in 1..Len(vs) : vs[i] >= 0)
    THEN SUCCESSFUL ELSE FAILED

\* what a step in which Fetch returns does to the group
C13_FetchStep ==
    FetchReturns =>
        /\ vPc' = "range"
        /\ pending' = pending
        /\ Len(testResults') = Len(testResults) + 1
        /\ SubSeq(testResults', 1, Len(testResults)) = testResults
        /\ testResults'[Len(testResults')] =
               [Name |-> testResult.Name, Status |-> VerdictOfFetch(fetchErr', values')]
        /\ (fetchErr' # Nil => testResults'[Len(testResults')].Status = FAILED)

\* C13: a Fetch error fails its own metric only: the range loop goes on, the
\* results recorded before are not touched, every metric's verdict is decided
\* by its own Fetch outcome alone, and a group that was not cut short by a
\* panic ends with a result for every measured metric.
C13_FetchErrorFailsOnlyItsMetric ==
    /\ [](vPc = "done" =>
            \A m \in GetMeasuredMetrics(runner) : ResultNameCount(testResults, m) = 1)
    /\ [][C13_FetchStep]_vars

C13_Witness ==
    /\ vPc = "range" /\ pending # {}
    /\ fetchErr # Nil /\ testResult.Status = FAILED
    /\ Len(testResults) = 2
    /\ testResults[1].Status = SUCCESSFUL
    /\ testResults[2] = testResult

\* C18, state part: the status is failed until Fetch has returned, and a
\* successful status means that all three checks passed.
C18_StatusStates ==
    /\ vPc \in {"fetch", "panic"} => testResult.Status = FAILED
    /\ testResult.Status = SUCCESSFUL =>
        /\ gd.pc = "returned" /\ Len(gd.unfulfilledInstructions) = 0
        /\ fetchCalls > 0 /\ fetchErr = Nil
        /\ Len(values) > 0 /\ \A i \in 1..Len(values) : values[i] >= 0
    /\ (MetricValidationReturned /\
            (Len(gd.unfulfilledInstructions) > 0 \/ fetchErr # Nil
             \/ Len(values) = 0 \/ \E i \in 1..Len(values) : values[i] < 0))
        => testResult.Status = FAILED

\* C18, step part: a validation starts with status failed; the status of the
\* metric under validation changes at most once, from failed to successful,
\* in the step in which Fetch returns; successful is never set back.
C18_StatusSteps ==
    /\ testResult'.Name # testResult.Name => testResult'.Status = FAILED
    /\ (testResult'.Name = testResult.Name /\ testResult'.Status # testResult.Status) =>
           /\ FetchReturns
           /\ testResult.Status = FAILED /\ testResult'.Status = SUCCESSFUL
    /\ \A i \in 1..Len(testResults) :
           i <= Len(testResults') /\ testResults'[i] = testResults[i]

\* C18: within one per-metric validation the status starts failed, becomes
\* successful at most once and only after dimensions, fetch and value check
\* passed, is never set back, and every early return carries failed.
C18_StatusLifecycle ==
    /\ []C18_StatusStates
    /\ [][C18_StatusSteps]_vars

C18_Witness ==
    /\ MetricValidationReturned /\ testResult.Status = SUCCESSFUL
    /\ fetchCalls = 2 /\ values = <<1, 0>>
    /\ testResults[1].Status = FAILED

(***************************************************************************)
(* Properties of the Log Validator (SpecLogs)                              *)
(***************************************************************************)
\* ValidateLogs returned
ValidateLogsReturned == lgPc = "done" /\ calls > 0

\* C4: whenever a successful answer carries the forward token the request
\* carried, pagination is over: ValidateLogs returns without a further call.
C4_SameTokenEndsPagination ==
    (/\ calls > 0 /\ lastResponse.kind = "ok"
     /\ lastResponse.token # Nil /\ lastResponse.token = lastRequestToken)
        => (lgPc = "done" /\ vlResult.err = Nil)

\* C5: resource-not-found is returned as the error of the call only once
\* allowedRetries retries (sleeps) were made in this call, however many
\* successful pages came before.
C5_RetriedUpToAllowedRetries ==
    (ValidateLogsReturned /\ vlResult.err = ResourceNotFoundException)
        => sleeps >= allowedRetries

\* C6: an error other than resource-not-found ends the call at once: no
\* retry, the validator is not invoked, the result is (false, that error).
C6_OtherErrorIsFatal ==
    (calls > 0 /\ lastResponse.kind = OtherError) =>
        /\ lgPc = "done"
        /\ vlResult = [err |-> OtherError, ok |-> FALSE]
        /\ validatorCalls = 0
        /\ gl.attempts = calls

C6_Witness ==
    /\ lastResponse.kind = OtherError /\ lgPc = "done"
    /\ calls >= 3 /\ rnfAnswers >= 1 /\ Len(delivered) >= 1
    /\ vlResult = [err |-> OtherError, ok |-> FALSE]

\* C7: a call that ends without error has invoked the validator exactly once,
\* after the last GetLogEvents call, on the events of all successful pages in
\* page and event order, and returns the validator's verdict; the validator
\* is never invoked before the call returns.
C7_ValidatorOnceOnAllMessages ==
    /\ lgPc # "done" => validatorCalls = 0
    /\ (lgPc = "done" /\ vlResult.err = Nil) =>
        /\ validatorCalls = 1
        /\ validatorArg = delivered
        /\ vlResult.ok = ApplyValidator(validator, delivered)

C7_Witness ==
    /\ lgPc = "done" /\ vlResult.err = Nil /\ validatorCalls = 1
    /\ delivered = <<"b", "a", "b">> /\ validatorArg = delivered
    /\ calls >= 3 /\ validator = "nonEmpty" /\ vlResult.ok

\* C8: a call in which the backend answered resource-not-found at least once
\* and at most allowedRetries times returns what the same call returns when
\* those answers are left out: same messages, same verdict, same error.
C8_RetryIdempotence ==
    (ValidateLogsReturned /\ rnfAnswers > 0 /\ rnfAnswers <= allowedRetries) =>
        /\ rnfFree.pc = "returned"
        /\ gl.foundLogs = rnfFree.foundLogs
        /\ LET r == ValidateLogsResult(rnfFree, validator)
           IN  vlResult = [err |-> r.err, ok |-> r.ok]

\* the number of GetLogEvents calls answered without error, in a call that
\* has seen no error other than resource-not-found
SuccessfulCalls == calls - rnfAnswers

\* C19: getLogsSince returns without error only after two or more successful
\* GetLogEvents calls, the last one sent with a token and answered with the
\* same token; the first request of a call carries no token.
C19_TwoPagesBeforeReturn ==
    /\ calls = 1 => lastRequestToken = Nil
    /\ (ValidateLogsReturned /\ vlResult.err = Nil) =>
        /\ SuccessfulCalls >= 2
        /\ lastResponse.kind = "ok"
        /\ lastRequestToken # Nil
        /\ lastResponse.token = lastRequestToken
    /\ (calls > 0 /\ SuccessfulCalls <= 1) => ~(lgPc = "done" /\ vlResult.err = Nil)

C19_Witness ==
    /\ ValidateLogsReturned /\ vlResult.err = Nil
    /\ calls = 2 /\ rnfAnswers = 0
    /\ lastRequestToken = "f/1" /\ lastResponse.token = "f/1"
    /\ validatorCalls = 1

\* the ValidateLogs call is over: it returned, or it panicked on a nil since
ValidateLogsEnded == lgPc \in {"done", "panic"}

\* C20: every ValidateLogs call ends, whatever the backend answers: the
\* pagination loop does not issue GetLogEvents calls forever.
C20_EventuallyReturns == <>ValidateLogsEnded

(***************************************************************************)
(* Properties of the client singleton (SpecClient)                         *)
(***************************************************************************)
\* C9: under any interleaving of concurrent callers at most one client is
\* created and installed, and all callers that get a client get the same one.
C9_SingleClient ==
    /\ created <= 1
    /\ \A c1, c2 \in Callers :
           (/\ cPc[c1] = "done" /\ cRet[c1].err = Nil
            /\ cPc[c2] = "done" /\ cRet[c2].err = Nil)
               => cRet[c1].client = cRet[c2].client

(***************************************************************************)
(* Properties of the cleanup functions (SpecCleanup)                       *)
(***************************************************************************)
\* the error lines log.Printf wrote for delete calls
DeleteErrorLines == SelectSeq(errorLog, LAMBDA l : l.line # "client")

\* the delete calls the backend did not answer with success or resource-not-found
OtherErrorCalls ==
    SelectSeq(apiCalls, LAMBDA c : c.answer \notin {"ok", ResourceNotFoundException})

\* C14: a delete call answered with resource-not-found writes no error line
\* (the error lines for delete calls are those of the calls answered with
\* another error, in order), every cleanup function runs to its return, and
\* DeleteLogGroupAndStream calls DeleteLogGroup after DeleteLogStream was
\* answered, whatever the answer.
C14_CleanupIdempotent ==
    /\ \A i \in 1..Len(errorLog) : errorLog[i].err # ResourceNotFoundException
    /\ Len(DeleteErrorLines) = Len(OtherErrorCalls)
    /\ \A i \in 1..Len(DeleteErrorLines) :
           /\ DeleteErrorLines[i].line = OtherErrorCalls[i].api
           /\ DeleteErrorLines[i].err = OtherErrorCalls[i].answer
    /\ clPc # "done" => ENABLED NextCleanup
    /\ (clOp = "DeleteLogGroupAndStream" /\ clPc = "done"
            /\ Len(apiCalls) > 0 /\ apiCalls[1].api = "DeleteLogStream") =>
           /\ Len(apiCalls) = 2
           /\ apiCalls[2].api = "DeleteLogGroup"

C14_Witness ==
    /\ clOp = "DeleteLogGroupAndStream" /\ clPc = "done"
    /\ logGroups = {"g2"} /\ clGroup = "g1"
    /\ apiCalls = <<[answer |-> ResourceNotFoundException, api |-> "DeleteLogStream"],
                    [answer |-> ResourceNotFoundException, api |-> "DeleteLogGroup"]>>
    /\ errorLog = <<>>

====
